---- MODULE Spec2Model ----
(***************************************************************************)
(* State-machine model of PyServer (src/server.py): the heartbeat loop of  *)
(* `run`, one heartbeat `_beat` (receive head frame, stop check, payload   *)
(* collection, dispatch, respond), `_stop`, `_respond`, `_recv` and the    *)
(* exposed method `echo`.                                                  *)
(*                                                                         *)
(* Text is modelled by TLA+ strings (Len, SubSeq and \o act on them as on  *)
(* Python str).  A Python value is a record [t, v]: t = "None" for None,   *)
(* t = "str" for a str whose text is v.  Seconds are modelled in           *)
(* milliseconds.  Exceptions raised by Python are those of CPython 3.      *)
(***************************************************************************)
EXTENDS Integers, Sequences, FiniteSets, TLC

(* ------------------------------ bounds -------------------------------- *)

\* number of messages the client sends over the life of the server
MaxMsgs == 2
\* longest payload (number of trailing frames) the client sends
MaxFrames == 12

(* ------------------------- program constants -------------------------- *)

\* _BEAT_BOUNDS = [0.001, 1.0] seconds, in milliseconds
BEAT_LO == 1
BEAT_HI == 1000
\* MORE_LIMIT = 10
MORE_LIMIT == 10
\* _PAYLOAD_STR = ":::"
PAYLOAD_STR == ":::"

(* --------------------------- Python values ---------------------------- *)

None == [t |-> "None", v |-> ""]
PyStr(s) == [t |-> "str", v |-> s]

\* str(x) / "{}".format(x)
Str(x) == IF x.t = "str" THEN x.v ELSE "None"

\* s.startswith(p)
StartsWith(s, p) == Len(s) >= Len(p) /\ SubSeq(s, 1, Len(p)) = p

(* ----------------------------- the wire ------------------------------- *)

\* bytes that are not valid UTF-8 (stands for the single byte 0xFF)
BadBytes == "<0xFF>"

\* undecodable bytes are let through
Decodable_lenient(bytes) == TRUE

\* bytes.decode("utf-8", "strict") succeeds
Decodable(bytes) == bytes # BadBytes
\* the text obtained from decodable bytes (the inputs are ASCII)
Decode(bytes) == bytes

\* a multipart message as the transport delivers it: every frame but the
\* last carries the RCVMORE mark
Wire(frames) ==
    [i \in 1..Len(frames) |-> [data |-> frames[i], more |-> i < Len(frames)]]

(* ------------------------------ inputs -------------------------------- *)

Intervals == {0, BEAT_LO, BEAT_HI, BEAT_HI + 1}

Heads == {"beat", "", "aSTOP", "STOP", "STOPnow", BadBytes}
Names == {"echo", "run", "addr", "nope", "_stop", "_log", "STOP"}
Args == {"hi", "", "STOP", "STOPPED"}
LongLens == {3, MORE_LIMIT, MORE_LIMIT + 1, MaxFrames}

\* head "beat", then "echo", then n-1 frames "hi"
Long(n) == [i \in 1..(n + 1) |-> IF i = 1 THEN "beat" ELSE IF i = 2 THEN "echo" ELSE "hi"]

Messages ==
    {<<h>> : h \in Heads}
    \cup {<<"beat", n, "hi">> : n \in Names}
    \cup {<<"beat", "echo", a>> : a \in Args}
    \cup {<<"beat", "echo">>, <<"beat", "_stop", "STOP">>,
          <<"aSTOP", "echo", "hi">>, <<"STOPnow", "_stop">>,
          <<"beat", "echo", BadBytes>>}
    \cup {Long(n) : n \in LongLens}

(* ------------------------------ state --------------------------------- *)

VARIABLES
    pc,          \* control point: "idle", "loop", "recv_head", "stopping",
                 \* "responding", "collect", "dispatch", "returned", "raised"
    exc,         \* the exception `run` ended with ("none" if none)
    beat,        \* argument of the last call of run (ms)
    stop_flag,   \* self._stop_flag
    count,       \* local `count` of run
    bcount,      \* local `count` of _beat
    msg,         \* local `msg` of _beat
    more,        \* local `more` of _beat
    more_count,  \* local `more_count` of _beat
    packet,      \* local `packet` of _beat
    result,      \* local `result` of _beat
    error,       \* local `error` of _beat
    inbound,     \* frames delivered to the socket and not yet received
    rcvmore,     \* socket option RCVMORE: mark of the last frame received
    sent,        \* every frame passed to send_string, in order
    rx,          \* history: texts returned by _recv in the current _beat
    tx,          \* history: frames sent in the current _beat
    called,      \* history: names whose attribute was called by line 165
    prev_rx,     \* history: rx of the preceding _beat of this run
    prev_tx,     \* history: tx of the preceding _beat of this run
    nmsgs        \* number of messages the client has sent

vars == <<pc, exc, beat, stop_flag, count, bcount, msg, more, more_count,
          packet, result, error, inbound, rcvmore, sent, rx, tx, called,
          prev_rx, prev_tx, nmsgs>>

locals == <<bcount, msg, more, more_count, packet, result, error>>
history == <<rx, tx, called, prev_rx, prev_tx>>

\* PyServer.__init__: socket bound, _stop_flag = False; nothing received
Init ==
    /\ pc = "idle"
    /\ exc = "none"
    /\ beat = BEAT_HI
    /\ stop_flag = FALSE
    /\ count = 0
    /\ bcount = 0
    /\ msg = ""
    /\ more = FALSE
    /\ more_count = 0
    /\ packet = <<>>
    /\ result = None
    /\ error = None
    /\ inbound = <<>>
    /\ rcvmore = FALSE
    /\ sent = <<>>
    /\ rx = <<>>
    /\ tx = <<>>
    /\ called = <<>>
    /\ prev_rx = <<>>
    /\ prev_tx = <<>>
    /\ nmsgs = 0

(* --------------------------- pure functions --------------------------- *)

\* the bounds are taken as exclusive
BeatBoundsOK_open(b) == ~((b >= BEAT_HI) \/ (b <= BEAT_LO))

\* run, line 79: the interval is accepted
BeatBoundsOK(b) == ~((b > BEAT_HI) \/ (b < BEAT_LO))

\* only the exact keyword stops
IsStop_exact(m) == m = "STOP"

\* the keyword is compared in lower case
IsStop_lower(m) == StartsWith(m, "stop")

\* the keyword is searched anywhere in the frame
IsStop_contains(m) == \E i \in 1..Len(m) : StartsWith(SubSeq(m, i, Len(m)), "STOP")

\* _beat, line 132
IsStop(m) == StartsWith(m, "STOP")

\* only double-underscore names are rejected
IsInternal_dunder(func) == StartsWith(func, "__")

\* _beat, line 162
IsInternal(func) == StartsWith(func, "_")

\* the increment is dropped
NextCount_same(c) == c

\* _beat, line 130: count += 1
NextCount(c) == c + 1

\* the ceiling is tested one frame late
OverLimit_late(n) == n > MORE_LIMIT + 1

\* the ceiling is tested with >=
OverLimit_early(n) == n >= MORE_LIMIT

\* _beat, line 149: the collection loop has passed the ceiling
OverLimit(n) == n > MORE_LIMIT

\* PyServer.echo
echo(m) == m

\* the attribute is returned instead of being called
Invoke_attr(func, arg) ==
    CASE func = "echo" ->
           [ok |-> TRUE, val |-> PyStr(arg), err |-> "", called |-> <<func>>]
      [] func = "addr" ->
           [ok |-> TRUE, val |-> PyStr("tcp://127.0.0.1:3000"), err |-> "", called |-> <<>>]
      [] OTHER ->
           [ok |-> FALSE, val |-> None, called |-> <<>>,
            err |-> "'PyServer' object has no attribute '" \o func \o "'"]

\* _beat, line 165: getattr(self, func)(arg).  ok: the call returned val;
\* otherwise it raised an exception whose str() is err.  called: the bound
\* methods whose body was entered.
Invoke(func, arg) ==
    CASE func = "echo" ->
           [ok |-> TRUE, val |-> PyStr(echo(arg)), err |-> "", called |-> <<func>>]
      [] func = "run" ->
           \* run(arg) compares the str arg with a float at line 79
           [ok |-> FALSE, val |-> None, called |-> <<func>>,
            err |-> "'>' not supported between instances of 'str' and 'float'"]
      [] func = "_log" ->
           [ok |-> TRUE, val |-> None, err |-> "", called |-> <<func>>]
      [] func = "_stop" ->
           [ok |-> FALSE, val |-> None, called |-> <<>>,
            err |-> "_stop() takes 1 positional argument but 2 were given"]
      [] func = "addr" ->
           [ok |-> FALSE, val |-> None, called |-> <<>>,
            err |-> "'str' object is not callable"]
      [] OTHER ->
           [ok |-> FALSE, val |-> None, called |-> <<>>,
            err |-> "'PyServer' object has no attribute '" \o func \o "'"]

\* the exception text is passed on unwrapped
ParsePacket_raw(pkt) ==
    LET r == IF Len(pkt) # 2
               THEN [ok |-> FALSE, val |-> None, called |-> <<>>,
                     err |-> "Packet was not length 2!"]
             ELSE IF StartsWith(pkt[1], "_")
               THEN [ok |-> FALSE, val |-> None, called |-> <<>>,
                     err |-> "Cannot call internal methods!"]
             ELSE Invoke(pkt[1], pkt[2])
    IN r

\* only packets that are too short are rejected
ParsePacket_short(pkt) ==
    LET r == IF Len(pkt) < 2
               THEN [ok |-> FALSE, val |-> None, called |-> <<>>,
                     err |-> "Packet was not length 2!"]
             ELSE IF StartsWith(pkt[1], "_")
               THEN [ok |-> FALSE, val |-> None, called |-> <<>>,
                     err |-> "Cannot call internal methods!"]
             ELSE Invoke(pkt[1], pkt[2])
    IN [ok |-> r.ok, val |-> r.val, called |-> r.called,
        err |-> "Malformed packet: '" \o r.err \o "'"]

\* _beat, lines 157-168: the try block on a collected packet
ParsePacket(pkt) ==
    LET r == IF Len(pkt) # 2
               THEN [ok |-> FALSE, val |-> None, called |-> <<>>,
                     err |-> "Packet was not length 2!"]
             ELSE IF IsInternal(pkt[1])
               THEN [ok |-> FALSE, val |-> None, called |-> <<>>,
                     err |-> "Cannot call internal methods!"]
             ELSE Invoke(pkt[1], pkt[2])
    IN [ok |-> r.ok, val |-> r.val, called |-> r.called,
        err |-> "Malformed packet: '" \o r.err \o "'"]

\* the separator is left out
Respond_nosep(m, res, err) ==
    IF (err # None) \/ (res # None)
      THEN m \o (IF err # None THEN "error: " \o Str(err) ELSE Str(res))
      ELSE m

\* the separator and the payload are always added
Respond_always(m, res, err) ==
    m \o PAYLOAD_STR \o (IF err # None THEN "error: " \o Str(err) ELSE Str(res))

\* the error marker is left out
Respond_nomarker(m, res, err) ==
    IF (err # None) \/ (res # None)
      THEN m \o PAYLOAD_STR \o (IF err # None THEN Str(err) ELSE Str(res))
      ELSE m

\* _respond, lines 198-206: the frame built from msg, result and error
Respond(m, res, err) ==
    IF (err # None) \/ (res # None)
      THEN m \o PAYLOAD_STR \o (IF err # None THEN "error: " \o Str(err) ELSE Str(res))
      ELSE m

\* result and error survive from the preceding heartbeat
BeatLocals_stale == [result |-> result, error |-> error]

\* _beat, lines 125-126: result and error at the start of a heartbeat
BeatLocals == [result |-> None, error |-> None]

\* the loop ignores the stop flag
LoopCond_always == TRUE

\* run, line 87: the condition of the heartbeat loop
LoopCond == ~stop_flag

\* the payload mark of the head frame is ignored
HasMore_never(f) == FALSE

\* _beat, line 136: RCVMORE of the head frame just received
HasMore(f) == f.more

(* ------------------------------ actions ------------------------------- *)

\* the client sends one multipart message
ClientSend(m) ==
    /\ nmsgs < MaxMsgs
    /\ inbound = <<>>
    /\ inbound' = Wire(m)
    /\ nmsgs' = nmsgs + 1
    /\ UNCHANGED <<pc, exc, beat, stop_flag, count, locals, rcvmore, sent, history>>

\* run(beat), lines 79-85
Run(b) ==
    /\ pc \in {"idle", "returned", "raised"}
    /\ beat' = b
    /\ IF ~BeatBoundsOK(b)
         THEN /\ pc' = "raised"
              /\ exc' = "ValueError"
              /\ UNCHANGED <<count, history>>
         ELSE /\ pc' = "loop"
              /\ exc' = "none"
              /\ count' = 0
              /\ rx' = <<>>
              /\ tx' = <<>>
              /\ called' = <<>>
              /\ prev_rx' = <<>>
              /\ prev_tx' = <<>>
    /\ UNCHANGED <<stop_flag, locals, inbound, rcvmore, sent, nmsgs>>

\* run, line 87 (and time.sleep of the preceding iteration), then either
\* lines 95-97 or the call of _beat(count) with lines 124-126
LoopTest ==
    /\ pc = "loop"
    /\ IF ~LoopCond
         THEN /\ pc' = "returned"
              /\ UNCHANGED <<locals, history>>
         ELSE /\ pc' = "recv_head"
              /\ bcount' = count
              /\ result' = BeatLocals.result
              /\ error' = BeatLocals.error
              /\ prev_rx' = rx
              /\ prev_tx' = tx
              /\ rx' = <<>>
              /\ tx' = <<>>
              /\ called' = <<>>
              \* the other locals of the new call are not bound yet
              /\ msg' = ""
              /\ more' = FALSE
              /\ more_count' = 0
              /\ packet' = <<>>
    /\ UNCHANGED <<exc, beat, stop_flag, count, inbound, rcvmore, sent, nmsgs>>

\* _beat, lines 129-137 and, without payload, lines 171-172
BeatRecvHead ==
    /\ pc = "recv_head"
    /\ inbound # <<>>
    /\ LET f == Head(inbound) IN
         /\ inbound' = Tail(inbound)
         /\ rcvmore' = f.more
         /\ IF ~Decodable(f.data)
              THEN /\ pc' = "raised"
                   /\ exc' = "UnicodeDecodeError"
                   /\ UNCHANGED <<stop_flag, count, locals, sent, history>>
              ELSE /\ msg' = Decode(f.data)
                   /\ bcount' = NextCount(bcount)
                   /\ rx' = <<Decode(f.data)>>
                   /\ UNCHANGED <<exc, result, error, called, prev_rx, prev_tx>>
                   /\ IF IsStop(Decode(f.data))
                        THEN /\ pc' = "stopping"
                             /\ UNCHANGED <<stop_flag, count, more, more_count,
                                            packet, sent, tx>>
                        ELSE /\ more' = HasMore(f)
                             /\ IF HasMore(f)
                                  THEN /\ packet' = <<>>
                                       /\ more_count' = 0
                                       /\ pc' = "collect"
                                       /\ UNCHANGED <<stop_flag, count, sent, tx>>
                                  ELSE /\ sent' = Append(sent, Respond("beat", result, error))
                                       /\ tx' = Append(tx, Respond("beat", result, error))
                                       /\ count' = NextCount(bcount)
                                       /\ pc' = "loop"
                                       /\ UNCHANGED <<stop_flag, more_count, packet>>
    /\ UNCHANGED <<beat, nmsgs>>

\* _stop goes on to respond without setting the flag
Stop_noflag ==
    /\ pc = "stopping"
    /\ pc' = "responding"
    /\ UNCHANGED <<exc, beat, stop_flag, count, locals, inbound, rcvmore, sent,
                   history, nmsgs>>

\* _stop, lines 105-106: the flag is set
Stop ==
    /\ pc = "stopping"
    /\ stop_flag' = TRUE
    /\ pc' = "responding"
    /\ UNCHANGED <<exc, beat, count, locals, inbound, rcvmore, sent, history, nmsgs>>

\* _stop, lines 107-108, and the return of _beat at line 134
StopRespond ==
    /\ pc = "responding"
    /\ sent' = Append(sent, Respond("STOPPED", None, None))
    /\ tx' = Append(tx, Respond("STOPPED", None, None))
    /\ count' = bcount
    /\ pc' = "loop"
    /\ UNCHANGED <<exc, beat, stop_flag, locals, inbound, rcvmore, rx, called,
                   prev_rx, prev_tx, nmsgs>>

\* _beat, lines 141-153: one iteration of the collection loop
CollectRecv ==
    /\ pc = "collect"
    /\ inbound # <<>>
    /\ LET f == Head(inbound) IN
         /\ inbound' = Tail(inbound)
         /\ rcvmore' = f.more
         /\ IF ~Decodable(f.data)
              THEN /\ pc' = "raised"
                   /\ exc' = "UnicodeDecodeError"
                   /\ UNCHANGED <<locals, history>>
              ELSE /\ msg' = Decode(f.data)
                   /\ more_count' = more_count + 1
                   /\ packet' = Append(packet, Decode(f.data))
                   /\ rx' = Append(rx, Decode(f.data))
                   /\ more' = f.more
                   /\ IF OverLimit(more_count + 1)
                        THEN /\ pc' = "raised"
                             /\ exc' = "RuntimeError"
                        ELSE /\ pc' = IF f.more THEN "collect" ELSE "dispatch"
                             /\ exc' = exc
                   /\ UNCHANGED <<bcount, result, error, tx, called, prev_rx, prev_tx>>
    /\ UNCHANGED <<beat, stop_flag, count, sent, nmsgs>>

\* _beat, lines 155-172: the try block, the response and the return
Dispatch ==
    /\ pc = "dispatch"
    /\ LET r == ParsePacket(packet)
           res == IF r.ok THEN r.val ELSE result
           err == IF r.ok THEN error ELSE PyStr(r.err)
       IN
         /\ result' = res
         /\ error' = err
         /\ called' = called \o r.called
         /\ sent' = Append(sent, Respond("beat", res, err))
         /\ tx' = Append(tx, Respond("beat", res, err))
    /\ count' = bcount
    /\ pc' = "loop"
    /\ UNCHANGED <<exc, beat, stop_flag, bcount, msg, more, more_count, packet,
                   inbound, rcvmore, rx, prev_rx, prev_tx, nmsgs>>

\* _recv, line 230: socket.recv() fails with a transport error
RecvFails ==
    /\ pc \in {"recv_head", "collect"}
    /\ pc' = "raised"
    /\ exc' = "ZMQError"
    /\ UNCHANGED <<beat, stop_flag, count, locals, inbound, rcvmore, sent,
                   history, nmsgs>>

Next ==
    \/ \E m \in Messages : ClientSend(m)
    \/ \E b \in Intervals : Run(b)
    \/ LoopTest
    \/ BeatRecvHead
    \/ Stop
    \/ StopRespond
    \/ CollectRecv
    \/ Dispatch
    \/ RecvFails

Spec == Init /\ [][Next]_vars

\* run is one thread of control: a step of the server that is enabled (a
\* blocking recv with a frame available, or any step that does not block)
\* is eventually taken; at most one of them is enabled at a time.  Transport
\* failures, calls of run and the client are not fair.
ServerStep ==
    LoopTest \/ BeatRecvHead \/ Stop \/ StopRespond \/ CollectRecv \/ Dispatch

FairSpec == Spec /\ WF_vars(ServerStep)

(* ----------------------------- properties ----------------------------- *)

\* the last call of _beat returned normally and run is at its loop test
CycleDone == pc = "loop" /\ rx # <<>>

\* number of payload frames received in the current heartbeat
NPayload == Len(rx) - 1

\* C1: a completed cycle whose head frame does not start with STOP and whose
\* payload is exactly [name, arg], name (first trailing frame) being the
\* exposed method echo, sends the single frame "beat" + ":::" + arg (second
\* trailing frame), having called echo and nothing else.
C1_EchoResponse ==
    (CycleDone /\ ~StartsWith(rx[1], "STOP") /\ NPayload = 2 /\ rx[2] = "echo")
        => /\ tx = <<"beat" \o ":::" \o rx[3]>>
           /\ called = <<"echo">>
           /\ sent # <<>> /\ sent[Len(sent)] = tx[1]

C1_Witness ==
    /\ CycleDone
    /\ rx = <<"beat", "echo", "hi">>
    /\ tx = <<"beat:::hi">>

\* C2 (as claimed): a payload naming an internal method is answered by
\* "beat:::error: Cannot call internal methods!".
C2_Original ==
    (CycleDone /\ NPayload = 2 /\ StartsWith(rx[2], "_"))
        => tx = <<"beat" \o ":::" \o "error: Cannot call internal methods!">>

\* C2 (amended): a payload [name, arg] whose name starts with "_" is answered
\* by "beat:::error: Malformed packet: 'Cannot call internal methods!'", no
\* method is called, and the loop is still running (stop flag false, run at
\* its loop test).
C2_InternalRejected ==
    (CycleDone /\ NPayload = 2 /\ StartsWith(rx[2], "_"))
        => /\ tx = <<"beat:::error: Malformed packet: 'Cannot call internal methods!'">>
           /\ called = <<>>
           /\ ~stop_flag
           /\ pc = "loop"

C2_Witness ==
    /\ CycleDone
    /\ rx = <<"beat", "_stop", "hi">>
    /\ tx = <<"beat:::error: Malformed packet: 'Cannot call internal methods!'">>
    /\ ~stop_flag

\* C3: a cycle with a non-STOP head frame and n payload frames, 1 <= n <= 10
\* and n # 2, never ends in the frame-ceiling error; when it completes no
\* method was called, its single response starts with
\* "beat:::error: Malformed packet" and the stop flag is still false.
C3_WrongLength ==
    (rx # <<>> /\ ~StartsWith(rx[1], "STOP") /\ NPayload >= 1 /\ NPayload <= 10 /\ NPayload # 2)
        => /\ exc # "RuntimeError"
           /\ called = <<>>
           /\ CycleDone =>
                /\ Len(tx) = 1
                /\ StartsWith(tx[1], "beat:::error: Malformed packet")
                /\ ~stop_flag

C3_Witness ==
    /\ CycleDone
    /\ NPayload = 10
    /\ tx = <<"beat:::error: Malformed packet: 'Packet was not length 2!'">>
    /\ ~stop_flag

\* some frame sent so far is the terminal response
StoppedSent == \E i \in 1..Len(sent) : sent[i] = "STOPPED"

\* C4: a cycle whose head frame starts with STOP sends exactly one frame,
\* "STOPPED", has received the head frame only and called no method; from
\* the moment the head frame is recognised no frame is taken from the
\* socket any more, and after "STOPPED" nothing is ever sent again.
C4_StopIsFinal ==
    [][ /\ (rx' # <<>> /\ StartsWith(rx'[1], "STOP")) =>
              /\ Len(rx') = 1
              /\ called' = <<>>
              /\ pc' \in {"stopping", "responding", "loop", "returned", "raised"}
              /\ pc' \in {"stopping", "responding"} => tx' = <<>>
              /\ pc' \notin {"stopping", "responding"} => (tx' = <<"STOPPED">> /\ stop_flag')
        /\ (pc \in {"stopping", "responding"} \/ StoppedSent) => Len(inbound') >= Len(inbound)
        /\ StoppedSent => /\ sent' = sent
                          /\ pc' \notin {"recv_head", "collect", "dispatch", "stopping", "responding"}
      ]_vars

C4_Witness ==
    /\ pc = "returned"
    /\ rx = <<"STOPnow">>
    /\ tx = <<"STOPPED">>
    /\ sent = <<"beat", "STOPPED">>
    /\ inbound = <<[data |-> "_stop", more |-> FALSE]>>

\* a step that is a call of run
RunStep ==
    /\ pc \in {"idle", "returned", "raised"}
    /\ <<pc, beat, exc>>' # <<pc, beat, exc>>

\* C5: a call of run with an interval below 1 ms or above 1000 ms ends at
\* once with ValueError, receives and sends nothing and leaves the stop flag
\* as it was; a call with an interval in [1, 1000] ms, endpoints included,
\* reaches the loop test of the heartbeat loop.
C5_IntervalBounds ==
    [][ RunStep =>
          /\ sent' = sent
          /\ inbound' = inbound
          /\ stop_flag' = stop_flag
          /\ IF beat' < 1 \/ beat' > 1000
               THEN pc' = "raised" /\ exc' = "ValueError"
               ELSE pc' = "loop" /\ exc' = "none"
      ]_vars

C5_Witness ==
    /\ pc = "raised"
    /\ exc = "ValueError"
    /\ beat = 1001
    /\ inbound # <<>>
    /\ sent = <<>>
    /\ ~stop_flag

\* C6: the step that receives the 11th payload frame of a message with a
\* non-STOP head raises RuntimeError; in such a cycle nothing is sent, no
\* method is called and run has ended with an exception; a cycle that
\* reaches dispatch or completes has read its whole message, which had at
\* most 10 payload frames.
C6_CeilingFatal ==
    [][ /\ (Len(rx') - 1 >= 11) =>
              /\ pc' = "raised"
              /\ tx' = <<>>
              /\ called' = <<>>
              /\ ~StartsWith(rx'[1], "STOP")
        /\ (Len(rx') - 1 >= 11 /\ Len(rx') > Len(rx)) => exc' = "RuntimeError"
        /\ (rx' # <<>> /\ ~StartsWith(rx'[1], "STOP") /\ pc' \in {"dispatch", "loop"}) =>
              (~rcvmore' /\ Len(rx') - 1 <= 10)
      ]_vars

C6_Witness ==
    /\ pc = "raised"
    /\ exc = "RuntimeError"
    /\ NPayload = 11
    /\ inbound = <<>>
    /\ ~rcvmore
    /\ tx = <<>>

\* C7: a completed cycle that received a single frame not starting with
\* STOP sends exactly the frame "beat" and calls no method.
C7_BareBeat ==
    (CycleDone /\ Len(rx) = 1 /\ ~StartsWith(rx[1], "STOP"))
        => /\ tx = <<"beat">>
           /\ called = <<>>
           /\ ~rcvmore

C7_Witness ==
    /\ CycleDone
    /\ rx = <<"aSTOP">>
    /\ tx = <<"beat">>

\* a step in which a heartbeat returns to run
CycleEnd == pc \in {"recv_head", "responding", "dispatch"} /\ pc' = "loop"

\* C8: the beat counter is 0 when run enters its loop, grows by exactly one
\* in every step that completes a cycle (bare beat, result, recoverable
\* error or stop) and is changed by no other step of that run.
C8_BeatCounter ==
    [][ /\ (RunStep /\ pc' = "loop") => count' = 0
        /\ CycleEnd => count' = count + 1
        /\ (~CycleEnd /\ ~RunStep) => count' = count
      ]_vars

C8_Witness ==
    /\ pc = "returned"
    /\ stop_flag
    /\ count = 2
    /\ Len(sent) = 2
    /\ StartsWith(sent[1], "beat:::error: ")
    /\ sent[2] = "STOPPED"

\* C9: a completed cycle that follows another cycle of the same run answers
\* payload [echo, x] with "beat:::" + x whatever the preceding cycle was, and
\* answers a message equal to the preceding cycle's message with the same
\* frame as that cycle.
C9_NoLeak ==
    (CycleDone /\ prev_rx # <<>> /\ prev_tx # <<>>)
        => /\ (~StartsWith(rx[1], "STOP") /\ NPayload = 2 /\ rx[2] = "echo")
                => tx = <<"beat:::" \o rx[3]>>
           /\ rx = prev_rx => tx = prev_tx

C9_Witness ==
    /\ CycleDone
    /\ prev_rx = <<"beat", "nope", "hi">>
    /\ prev_tx = <<"beat:::error: Malformed packet: ''PyServer' object has no attribute 'nope''">>
    /\ rx = <<"beat", "echo", "hi">>
    /\ tx = <<"beat:::hi">>

\* C10: no name starting with "_" is ever called through the dispatch path,
\* and a cycle whose payload names _stop neither sets the stop flag nor
\* sends "STOPPED".
C10_NoInternalCall ==
    /\ \A i \in 1..Len(called) : ~StartsWith(called[i], "_")
    /\ (Len(rx) >= 2 /\ rx[2] = "_stop") =>
          /\ ~stop_flag
          /\ \A i \in 1..Len(tx) : tx[i] # "STOPPED"
          /\ ~StoppedSent

C10_Witness ==
    /\ CycleDone
    /\ rx = <<"beat", "_stop", "STOP">>
    /\ Len(tx) = 1
    /\ called = <<>>
    /\ ~stop_flag

C12_RecoverableDispatch ==
    (Len(rx) = 3 /\ ~rcvmore /\ ~StartsWith(rx[1], "STOP")
       /\ ~StartsWith(rx[2], "_") /\ rx[2] # "echo")
        => /\ pc \in {"dispatch", "loop"}
           /\ exc = "none"
           /\ ~stop_flag
           /\ pc = "loop" =>
                /\ Len(tx) = 1
                /\ StartsWith(tx[1], "beat:::error: ")
                /\ Len(tx[1]) > Len("beat:::error: ")
                /\ result = None

C12_Witness ==
    /\ CycleDone
    /\ rx = <<"beat", "addr", "hi">>
    /\ tx = <<"beat:::error: Malformed packet: ''str' object is not callable'">>
    /\ prev_rx = <<"beat", "run", "hi">>
    /\ ~stop_flag

\* C13: the stop flag changes only from false to true, and only in the step
\* of _stop taken in a cycle that has received nothing but a head frame
\* starting with STOP; while a cycle with another head frame is in progress
\* or has just completed, the flag is false whatever its payload frames are.
C13_StopOnlyByHead ==
    [][ /\ (stop_flag' # stop_flag) =>
              /\ ~stop_flag /\ stop_flag'
              /\ pc = "stopping"
              /\ Len(rx) = 1 /\ StartsWith(rx[1], "STOP")
        /\ (rx' # <<>> /\ ~StartsWith(rx'[1], "STOP")) => ~stop_flag'
        /\ stop_flag' => (rx' = <<>> \/ StartsWith(rx'[1], "STOP"))
      ]_vars

C13_Witness ==
    /\ pc = "returned"
    /\ stop_flag
    /\ prev_rx = <<"beat", "echo", "STOP">>
    /\ prev_tx = <<"beat:::STOP">>
    /\ rx = <<"STOP">>

\* C14: once the stop flag is true it stays true, no frame is sent or taken
\* from the socket, no heartbeat is started, and the only step run takes at
\* its loop test is to return; a later call of run with a valid interval
\* therefore goes from the loop test straight to its return.
C14_StoppedIsTerminal ==
    [][ stop_flag =>
          /\ stop_flag'
          /\ pc \in {"responding", "loop", "returned", "raised"}
          /\ pc # "responding" => sent' = sent
          /\ Len(inbound') >= Len(inbound)
          /\ pc' \notin {"recv_head", "collect", "dispatch", "stopping"}
          /\ (pc = "loop" /\ pc' # pc) => pc' = "returned"
      ]_vars

C14_Witness ==
    /\ pc = "returned"
    /\ stop_flag
    /\ rx = <<>>
    /\ count = 0
    /\ beat = 1
    /\ sent = <<"STOPPED">>
    /\ inbound # <<>>

\* the frame a response with the given result and error must be
FrameOf(res, err) ==
    IF err.t = "str" THEN "beat:::error: " \o err.v
    ELSE IF res.t = "str" THEN "beat:::" \o res.v
    ELSE "beat"

\* C15: result and error are never both set; every frame sent is "STOPPED",
\* "beat", or "beat:::" followed by a result or by "error: " and a message;
\* the frame of a completed cycle with a non-STOP head is "beat" when
\* neither is set, "beat:::" + result when the result is set and
\* "beat:::error: " + error when the error is set, and a dispatch that left
\* an error left no result.
C15_ResponseForms ==
    /\ ~(result # None /\ error # None)
    /\ \A i \in 1..Len(sent) :
          sent[i] \in {"STOPPED", "beat"} \/ StartsWith(sent[i], "beat:::")
    /\ (CycleDone /\ ~StartsWith(rx[1], "STOP")) => tx = <<FrameOf(result, error)>>
    /\ (CycleDone /\ StartsWith(rx[1], "STOP")) => tx = <<"STOPPED">>

C15_Witness ==
    /\ CycleDone
    /\ called = <<"run">>
    /\ error # None
    /\ result = None
    /\ StartsWith(tx[1], "beat:::error: Malformed packet: ''>' not supported")

\* C16: the packet never holds more than 11 frames and more_count is its
\* length; run has ended with RuntimeError only with exactly 11 payload
\* frames collected; a cycle with a non-STOP head that has read between 1
\* and 10 payload frames, the last without RCVMORE mark, has not raised
\* RuntimeError: it is at dispatch, has completed with one response, or
\* was ended by a decode or transport error.
C16_CeilingIsTen ==
    /\ Len(packet) <= 11
    /\ more_count = Len(packet)
    /\ NPayload <= 11
    /\ exc = "RuntimeError" =>
          (pc = "raised" /\ Len(packet) = 11 /\ more_count = 11 /\ packet = Tail(rx))
    /\ (pc = "collect") => (more_count <= 10 /\ rcvmore)
    /\ (rx # <<>> /\ ~StartsWith(rx[1], "STOP") /\ NPayload >= 1 /\ NPayload <= 10 /\ ~rcvmore)
          => /\ exc # "RuntimeError"
             /\ pc \in {"dispatch", "loop", "raised"}
             /\ pc = "loop" => (Len(tx) = 1 /\ StartsWith(tx[1], "beat:::"))

C16_Witness ==
    /\ pc = "raised"
    /\ exc = "RuntimeError"
    /\ Len(packet) = 11
    /\ rcvmore
    /\ inbound # <<>>

\* a step in which run ends with an exception raised inside a heartbeat
FatalStep == pc \in {"recv_head", "collect"} /\ pc' = "raised"

\* C17: a step that takes undecodable bytes from the socket, as head or as
\* payload frame, ends run with UnicodeDecodeError; every step that ends run
\* from inside a heartbeat (decode error, transport error, frame ceiling)
\* sends nothing, sets no error for a response and leaves the cycle without
\* any frame sent; run is then over with that exception.
C17_FatalNotAnswered ==
    [][ /\ (pc \in {"recv_head", "collect"} /\ inbound # <<>>
              /\ Len(inbound') < Len(inbound) /\ Head(inbound).data = "<0xFF>")
            => (pc' = "raised" /\ exc' = "UnicodeDecodeError")
        /\ FatalStep =>
              /\ exc' \in {"UnicodeDecodeError", "ZMQError", "RuntimeError"}
              /\ sent' = sent
              /\ tx' = <<>>
              /\ error' = error /\ result' = result
              /\ count' = count
        /\ (pc' = "raised" /\ exc' \in {"UnicodeDecodeError", "ZMQError", "RuntimeError"})
            => (tx' = <<>> /\ error' = None)
        /\ (pc = "raised" /\ pc' # pc) => pc' = "loop" /\ exc' = "none"
      ]_vars

C17_Witness ==
    /\ pc = "raised"
    /\ exc = "UnicodeDecodeError"
    /\ rx = <<"beat", "echo">>
    /\ tx = <<>>
    /\ sent = <<"beat">>
    /\ error = None

\* run is in its loop, not stopped, and the next frame it will receive as a
\* head frame starts with STOP
StopPending ==
    /\ pc \in {"loop", "recv_head"}
    /\ ~stop_flag
    /\ inbound # <<>>
    /\ StartsWith(Head(inbound).data, "STOP")

\* C18: the collection loop of a cycle runs at most 11 times; run returns
\* normally only with the stop flag set and a "STOPPED" frame sent; and when
\* a head frame starting with STOP is the next frame of a running loop, run
\* eventually returns, unless the transport fails first.
C18_Termination ==
    /\ [](more_count <= 11)
    /\ [](pc = "returned" => (stop_flag /\ StoppedSent))
    /\ (StopPending ~> (pc = "returned" \/ (pc = "raised" /\ exc = "ZMQError")))

C18_Witness ==
    /\ pc = "returned"
    /\ stop_flag
    /\ count = 2
    /\ prev_rx = <<"beat", "echo", "hi">>
    /\ rx = <<"STOP">>
    /\ sent = <<"beat:::hi", "STOPPED">>

\* C19: at most one frame sent is "STOPPED" and it is the last frame sent;
\* the step that sends it finds the stop flag already true, and the flag is
\* true in every state in which it has been sent; a frame sent by the normal
\* response path (bare beat, result or error) starts with "beat" and is
\* never "STOPPED", also when the result itself is the text "STOPPED".
C19_StoppedOnceAndLast ==
    [][ /\ Cardinality({i \in 1..Len(sent') : sent'[i] = "STOPPED"}) <= 1
        /\ \A i \in 1..Len(sent') : sent'[i] = "STOPPED" => i = Len(sent')
        /\ (\E i \in 1..Len(sent') : sent'[i] = "STOPPED") => stop_flag'
        /\ (sent' # sent /\ sent'[Len(sent')] = "STOPPED") =>
              (stop_flag /\ pc = "responding" /\ StartsWith(rx[1], "STOP"))
        /\ (sent' # sent /\ pc \in {"recv_head", "dispatch"}) =>
              /\ StartsWith(sent'[Len(sent')], "beat")
              /\ (result' # None \/ error' # None) => StartsWith(sent'[Len(sent')], "beat:::")
      ]_vars

C19_Witness ==
    /\ pc = "returned"
    /\ stop_flag
    /\ sent = <<"beat:::STOPPED", "STOPPED">>
    /\ prev_rx = <<"beat", "echo", "STOPPED">>

====
